---------------------------- MODULE Spec2Model ----------------------------
(***************************************************************************)
(* Model of smart_parking_pricing_system.ipynb: the notebook's code cells  *)
(* run top to bottom over one DataFrame df.                                *)
(*                                                                         *)
(*   cell e3544c47  preprocessing (encodings, OccupancyRate, MinMaxScaler) *)
(*   cell 0ccbd6cd  linear_pricing_model      -> df['LinearPrice']         *)
(*   cell 7741a7b0  demand_based_price        -> df['DemandPrice']         *)
(*   cell 47af9c64  haversine, competitive_price -> df['CompetitivePrice'] *)
(*                                                                         *)
(* Floats are modelled as exact rationals <<n, d>> in lowest terms with    *)
(* d > 0; NaN is <<0, 0>> and +inf is <<1, 0>>.  Comparisons with NaN are  *)
(* false, as in Python, and min/max keep Python's argument order, so NaN   *)
(* passes through a clamp exactly as it does in the notebook.  Sums,       *)
(* means and comparisons are exact.  The input rows are chosen so that no  *)
(* value handed to round(x, 2) lies exactly half way between two cents,    *)
(* where the binary representation of x would decide the result.           *)
(*                                                                         *)
(* Rows are numbered 1..NRows here and 0..len(df)-1 in pandas.             *)
(***************************************************************************)
EXTENDS Integers, Sequences, FiniteSets

VARIABLES
    df,         \* the DataFrame: a sequence of rows (records, one field per column)
    columns,    \* df.columns: the columns that exist so far
    pc,         \* the cell being executed: preprocess, linear, demand, competitive, done, error
    acc,        \* the result list a df.apply / list comprehension has built so far
    neighbors   \* per competitive_price call, the rows appended to its local `neighbors`

vars == <<df, columns, pc, acc, neighbors>>

\* Number of rows of dataset.csv.
NRows == 3

Rows == 1..NRows

-----------------------------------------------------------------------------
(* Float arithmetic on exact rationals.                                    *)

NaN == <<0, 0>>
Inf == <<1, 0>>

IsNaN(x) == x = NaN
IsInf(x) == x = Inf
IsNum(x) == x[2] > 0

Abs(n) == IF n < 0 THEN 0 - n ELSE n

RECURSIVE GCD(_, _)
GCD(a, b) == IF b = 0 THEN a ELSE GCD(b, a % b)

\* n/d in lowest terms, d > 0.
Fr(n, d) == LET g == GCD(Abs(n), d) IN <<n \div g, d \div g>>

F(n) == <<n, 1>>

Add(x, y) ==
    IF IsNaN(x) \/ IsNaN(y) THEN NaN
    ELSE IF IsInf(x) \/ IsInf(y) THEN Inf
    ELSE Fr(x[1] * y[2] + y[1] * x[2], x[2] * y[2])

Sub(x, y) ==
    IF IsNaN(x) \/ IsNaN(y) THEN NaN
    ELSE IF IsInf(x) /\ IsInf(y) THEN NaN
    ELSE IF IsInf(x) THEN Inf
    ELSE Fr(x[1] * y[2] - y[1] * x[2], x[2] * y[2])

\* Only finite factors are multiplied by the notebook (an inf stops the
\* preprocessing cell before any pricing function runs).
Mul(x, y) ==
    IF ~IsNum(x) \/ ~IsNum(y) THEN NaN
    ELSE Fr(x[1] * y[1], x[2] * y[2])

\* x / y for a finite, positive divisor y (numpy and Python agree there).
Div(x, y) ==
    IF ~IsNum(x) \/ ~IsNum(y) THEN NaN
    ELSE Fr(x[1] * y[2], x[2] * y[1])

Lt(x, y) ==
    /\ ~IsNaN(x) /\ ~IsNaN(y)
    /\ IF IsInf(x) THEN FALSE
       ELSE IF IsInf(y) THEN TRUE
       ELSE x[1] * y[2] < y[1] * x[2]

Gt(x, y) == Lt(y, x)
Le(x, y) == ~IsNaN(x) /\ ~IsNaN(y) /\ ~Lt(y, x)

\* Python's builtin max(a, b) and min(a, b): the first argument is kept
\* unless the second compares strictly greater (smaller).
py_max(a, b) == IF Gt(b, a) THEN b ELSE a
py_min(a, b) == IF Lt(b, a) THEN b ELSE a

\* Python's round(x, 2): to the nearest cent, an exact half to the even cent.
\* round(nan, 2) is nan.
round2(x) ==
    IF ~IsNum(x) THEN x
    ELSE LET n == 100 * x[1]
             d == x[2]
             q == n \div d
             r == n % d
             c == IF 2 * r > d THEN q + 1
                  ELSE IF 2 * r < d THEN q
                  ELSE IF q % 2 = 0 THEN q ELSE q + 1
         IN  Fr(c, 100)

RECURSIVE SumOver(_, _)
\* Sum of f[i] for i in the set S (np.mean's numerator).
SumOver(S, f) ==
    IF S = {} THEN F(0)
    ELSE LET i == CHOOSE j \in S : TRUE
         IN  Add(f[i], SumOver(S \ {i}, f))

\* np.mean over a non-empty list, given as the rows S and the values f.
np_mean(S, f) == Div(SumOver(S, f), F(Cardinality(S)))

-----------------------------------------------------------------------------
(* dataset.csv: the rows the notebook is run on.                           *)

\* Latitude and Longitude of each parking lot, in thousandths of a degree.
\* A and B are about 0.56 km apart; C is more than 1.8 km from both.
LotLatitude  == [A |-> 0, B |-> 3, C |-> 0]
LotLongitude == [A |-> 0, B |-> 4, C |-> 20]

RawColumns ==
    {"SystemCodeNumber", "Timestamp", "Occupancy", "Capacity", "QueueLength",
     "TrafficConditionNearby", "VehicleType", "IsSpecialDay", "Latitude",
     "Longitude"}

\* One row as read by pd.read_csv.  The columns the notebook adds later are
\* carried as NaN until the cell that assigns them has run (see columns).
Reading(lot, ts, occ, cap, queue, traffic, vehicle, special) ==
    [SystemCodeNumber |-> lot, Timestamp |-> ts,
     Occupancy |-> occ, Capacity |-> cap, QueueLength |-> queue,
     TrafficConditionNearby |-> traffic, VehicleType |-> vehicle,
     IsSpecialDay |-> special,
     Latitude |-> LotLatitude[lot], Longitude |-> LotLongitude[lot],
     VehicleTypeEncoded |-> NaN, TrafficConditionEncoded |-> NaN,
     OccupancyRate |-> NaN, NormalizedOccupancyRate |-> NaN,
     NormalizedQueueLength |-> NaN,
     LinearPrice |-> NaN, DemandPrice |-> NaN, CompetitivePrice |-> NaN]

\* The readings a row of the dataset is drawn from: three lots, two
\* timestamps, occupancy below, at and above capacity, a zero capacity, and
\* a traffic level and a vehicle type the encodings do not list.
Readings ==
    { Reading("A", 1, 50, 100, 0, "low", "car", 0),
      Reading("A", 2, 150, 100, 3, "high", "truck", 1),
      Reading("A", 1, 1, 0, 1, "low", "car", 0),
      Reading("B", 1, 2, 2, 2, "medium", "car", 0),
      Reading("B", 2, 1, 3, 1, "high", "bike", 1),
      Reading("B", 1, 0, 0, 0, "low", "bike", 0),
      Reading("B", 2, 3, 3, 1, "average", "car", 0),
      Reading("C", 1, 4, 3, 3, "high", "truck", 0),
      Reading("C", 2, 1, 2, 0, "low", "cycle", 1),
      Reading("C", 1, 2, 3, 2, "medium", "bike", 0) }

Init ==
    /\ df \in [Rows -> Readings]
    /\ columns = RawColumns
    /\ pc = "preprocess"
    /\ acc = <<>>
    /\ neighbors = <<>>

\* df[column] = values: assign a whole column.
SetColumn(table, column, values) ==
    [i \in Rows |-> [table[i] EXCEPT ![column] = values[i]]]

-----------------------------------------------------------------------------
(* Cell e3544c47: preprocessing.                                           *)

\* df['VehicleType'].map({'car': 1.0, 'bike': 0.5, 'truck': 1.5})
VehicleTypeMap(v) ==
    CASE v = "car" -> Fr(1, 1)
      [] v = "bike" -> Fr(1, 2)
      [] v = "truck" -> Fr(3, 2)
      [] OTHER -> NaN

\* df['TrafficConditionNearby'].map({'low': 0, 'medium': 1, 'high': 2})
TrafficConditionMap(t) ==
    CASE t = "low" -> F(0)
      [] t = "medium" -> F(1)
      [] t = "high" -> F(2)
      [] OTHER -> NaN

\* df['Occupancy'] / df['Capacity']: pandas' element-wise division, which
\* raises nothing: x/0 is inf and 0/0 is NaN.
SeriesDiv(occ, cap) ==
    IF cap = 0 THEN (IF occ = 0 THEN NaN ELSE Inf) ELSE Fr(occ, cap)

\* np.nanmin / np.nanmax of a column: NaN entries are disregarded.
NanMin(vals) ==
    LET S == {vals[i] : i \in Rows} \ {NaN}
    IN  IF S = {} THEN NaN ELSE CHOOSE m \in S : \A y \in S : Le(m, y)

NanMax(vals) ==
    LET S == {vals[i] : i \in Rows} \ {NaN}
    IN  IF S = {} THEN NaN ELSE CHOOSE m \in S : \A y \in S : Le(y, m)

\* MinMaxScaler().fit_transform on one column: X * scale_ + min_, with
\* scale_ = 1 / (max - min), a zero range replaced by 1, and
\* min_ = 0 - min * scale_.
MinMaxScale(vals) ==
    LET lo == NanMin(vals)
        hi == NanMax(vals)
        range == Sub(hi, lo)
        scale == IF range = F(0) THEN F(1) ELSE Div(F(1), range)
        min_ == Sub(F(0), Mul(lo, scale))
    IN  [i \in Rows |-> Add(Mul(vals[i], scale), min_)]

Preprocess ==
    /\ pc = "preprocess"
    /\ LET vte == [i \in Rows |-> VehicleTypeMap(df[i].VehicleType)]
           tce == [i \in Rows |-> TrafficConditionMap(df[i].TrafficConditionNearby)]
           rate == [i \in Rows |-> SeriesDiv(df[i].Occupancy, df[i].Capacity)]
           queue == [i \in Rows |-> F(df[i].QueueLength)]
           df3 == SetColumn(SetColumn(SetColumn(df, "VehicleTypeEncoded", vte),
                      "TrafficConditionEncoded", tce), "OccupancyRate", rate)
           cols3 == columns \cup
                      {"VehicleTypeEncoded", "TrafficConditionEncoded", "OccupancyRate"}
       IN  IF \E i \in Rows : IsInf(rate[i])
           THEN \* fit_transform: ValueError, the input contains infinity
                /\ df' = df3
                /\ columns' = cols3
                /\ pc' = "error"
           ELSE /\ df' = SetColumn(SetColumn(df3, "NormalizedOccupancyRate",
                             MinMaxScale(rate)), "NormalizedQueueLength",
                             MinMaxScale(queue))
                /\ columns' = cols3 \cup
                      {"NormalizedOccupancyRate", "NormalizedQueueLength"}
                /\ pc' = "linear"
    /\ UNCHANGED <<acc, neighbors>>

-----------------------------------------------------------------------------
(* Cell 0ccbd6cd: Model 1, linear pricing.                                 *)

\* linear_pricing_model with the occupancy rate capped at 1 (a full lot).
linear_pricing_model_capped(occupancy, capacity, base_price, alpha) ==
    LET occupancy_rate == py_min(Fr(occupancy, capacity), F(1))
    IN  round2(Add(base_price, Mul(alpha, occupancy_rate)))

\* linear_pricing_model(occupancy, capacity, base_price, alpha), capacity # 0
linear_pricing_model(occupancy, capacity, base_price, alpha) ==
    LET occupancy_rate == Fr(occupancy, capacity)
    IN  round2(Add(base_price, Mul(alpha, occupancy_rate)))

\* The defaults base_price=10.0 and alpha=5.0.
LinearBasePrice == 10
LinearAlpha == 5

\* One row of df.apply(lambda row: linear_pricing_model(...), axis=1).  The
\* row handed to the lambda holds Python numbers, so a zero Capacity raises
\* ZeroDivisionError and the cell stops with no column assigned.
LinearStep ==
    /\ pc = "linear"
    /\ Len(acc) < NRows
    /\ LET row == df[Len(acc) + 1]
       IN  IF row.Capacity = 0
           THEN /\ pc' = "error"
                /\ acc' = <<>>
           ELSE /\ acc' = Append(acc, linear_pricing_model(row.Occupancy,
                              row.Capacity, F(LinearBasePrice), F(LinearAlpha)))
                /\ pc' = pc
    /\ UNCHANGED <<df, columns, neighbors>>

\* df['LinearPrice'] = <the result of apply>
LinearAssign ==
    /\ pc = "linear"
    /\ Len(acc) = NRows
    /\ df' = SetColumn(df, "LinearPrice", acc)
    /\ columns' = columns \cup {"LinearPrice"}
    /\ pc' = "demand"
    /\ acc' = <<>>
    /\ UNCHANGED neighbors

-----------------------------------------------------------------------------
(* Cell 7741a7b0: Model 2, demand-based pricing.                           *)

\* demand_based_price(row, base_price, lambd)
demand_based_price(row, base_price, lambd) ==
    LET alpha == Fr(4, 10)
        beta == Fr(3, 10)
        gamma == Fr(1, 10)
        delta == Fr(1, 10)
        epsilon == Fr(1, 10)
        demand0 ==
            Add(Add(Add(Add(
                Mul(alpha, row.NormalizedOccupancyRate),
                Mul(beta, row.NormalizedQueueLength)),
                Div(Mul(gamma, row.TrafficConditionEncoded), F(2))),
                Div(Mul(delta, row.VehicleTypeEncoded), Fr(3, 2))),
                Mul(epsilon, F(row.IsSpecialDay)))
        demand == py_min(py_max(demand0, F(0)), F(1))
    IN  round2(py_min(py_max(Mul(base_price, Add(F(1), Mul(lambd, demand))),
                             F(5)), F(20)))

\* The defaults base_price=10.0 and lambd=0.5.
DemandBasePrice == 10
DemandLambda == Fr(1, 2)

\* One row of df.apply(demand_based_price, axis=1).
DemandStep ==
    /\ pc = "demand"
    /\ Len(acc) < NRows
    /\ acc' = Append(acc, demand_based_price(df[Len(acc) + 1],
                              F(DemandBasePrice), DemandLambda))
    /\ UNCHANGED <<df, columns, pc, neighbors>>

\* The demand cell left as soon as one row is priced: the column is
\* assigned with the rows not yet reached still unset.
DemandAssignEarly ==
    /\ pc = "demand"
    /\ Len(acc) >= 1
    /\ df' = SetColumn(df, "DemandPrice",
                 [i \in Rows |-> IF i <= Len(acc) THEN acc[i] ELSE NaN])
    /\ columns' = columns \cup {"DemandPrice"}
    /\ pc' = "competitive"
    /\ acc' = <<>>
    /\ UNCHANGED neighbors

\* df['DemandPrice'] = <the result of apply>
DemandAssign ==
    /\ pc = "demand"
    /\ Len(acc) = NRows
    /\ df' = SetColumn(df, "DemandPrice", acc)
    /\ columns' = columns \cup {"DemandPrice"}
    /\ pc' = "competitive"
    /\ acc' = <<>>
    /\ UNCHANGED neighbors

-----------------------------------------------------------------------------
(* Cell 47af9c64: Model 3, competitive pricing.                            *)

\* R = 6371, the Earth's radius in km.
R == 6371

RECURSIVE ISqrtIn(_, _, _)
\* The largest r in lo..hi with r * r <= n.
ISqrtIn(n, lo, hi) ==
    IF lo = hi THEN lo
    ELSE LET mid == (lo + hi + 1) \div 2
         IN  IF mid * mid <= n THEN ISqrtIn(n, mid, hi) ELSE ISqrtIn(n, lo, mid - 1)

\* haversine(lat1, lon1, lat2, lon2) in km, for coordinates in thousandths
\* of a degree that lie within a few hundredths of a degree of (0, 0).
\* There cos(phi) is 1, and sin and arcsin are the identity, to within one
\* part in 10^6, so a = (dphi^2 + dlambda^2) / 4 and the distance is
\* R * sqrt(dphi^2 + dlambda^2): (R * pi / 180) metres for each thousandth
\* of a degree.  The result is rounded down to a whole metre.
haversine(lat1, lon1, lat2, lon2) ==
    LET cmPerUnit == (R * 31416) \div 18000
        m2PerUnit2 == (cmPerUnit * cmPerUnit) \div 10000
        d2 == (lat2 - lat1) * (lat2 - lat1) + (lon2 - lon1) * (lon2 - lon1)
    IN  Fr(ISqrtIn(d2 * m2PerUnit2, 0, 40000), 1000)

\* The rows competitive_price appends to `neighbors`: every row of the
\* table but row `index` itself whose distance is at most radius_km.
neighbor_rows(index, table, radius_km) ==
    {i \in Rows :
        /\ i # index
        /\ Le(haversine(table[index].Latitude, table[index].Longitude,
                        table[i].Latitude, table[i].Longitude), radius_km)}

\* competitive_price with the tie avg_price == own_price treated as a
\* lower average (<= for <).
competitive_price_tie_lowers(index, table, radius_km) ==
    LET own_price == table[index].DemandPrice
        nb == neighbor_rows(index, table, radius_km)
        avg_price == np_mean(nb, [i \in Rows |-> table[i].DemandPrice])
        avg_occ == np_mean(nb, [i \in Rows |->
                       Fr(table[i].Occupancy, table[i].Capacity)])
    IN  IF nb = {} THEN own_price
        ELSE IF Gt(avg_occ, Fr(9, 10)) /\ Gt(avg_price, own_price)
             THEN py_min(Add(own_price, F(1)), F(20))
        ELSE IF Le(avg_price, own_price)
             THEN py_max(Sub(own_price, F(1)), F(5))
        ELSE own_price

\* competitive_price that falls back to the base price 10.0, not to the
\* row's own demand price, when there are no neighbours.
competitive_price_base_fallback(index, table, radius_km) ==
    LET own_price == table[index].DemandPrice
        nb == neighbor_rows(index, table, radius_km)
        avg_price == np_mean(nb, [i \in Rows |-> table[i].DemandPrice])
        avg_occ == np_mean(nb, [i \in Rows |->
                       Fr(table[i].Occupancy, table[i].Capacity)])
    IN  IF nb = {} THEN F(10)
        ELSE IF Gt(avg_occ, Fr(9, 10)) /\ Gt(avg_price, own_price)
             THEN py_min(Add(own_price, F(1)), F(20))
        ELSE IF Lt(avg_price, own_price)
             THEN py_max(Sub(own_price, F(1)), F(5))
        ELSE own_price

\* competitive_price that moves to the neighbours' average instead of
\* stepping by 1.
competitive_price_match_average(index, table, radius_km) ==
    LET own_price == table[index].DemandPrice
        nb == neighbor_rows(index, table, radius_km)
        avg_price == np_mean(nb, [i \in Rows |-> table[i].DemandPrice])
        avg_occ == np_mean(nb, [i \in Rows |->
                       Fr(table[i].Occupancy, table[i].Capacity)])
    IN  IF nb = {} THEN own_price
        ELSE IF Gt(avg_occ, Fr(9, 10)) /\ Gt(avg_price, own_price)
             THEN py_min(avg_price, F(20))
        ELSE IF Lt(avg_price, own_price)
             THEN py_max(avg_price, F(5))
        ELSE own_price

\* competitive_price(index, df, radius_km)
competitive_price(index, table, radius_km) ==
    LET own_price == table[index].DemandPrice
        nb == neighbor_rows(index, table, radius_km)
        avg_price == np_mean(nb, [i \in Rows |-> table[i].DemandPrice])
        avg_occ == np_mean(nb, [i \in Rows |->
                       Fr(table[i].Occupancy, table[i].Capacity)])
    IN  IF nb = {} THEN own_price
        ELSE IF Gt(avg_occ, Fr(9, 10)) /\ Gt(avg_price, own_price)
             THEN py_min(Add(own_price, F(1)), F(20))
        ELSE IF Lt(avg_price, own_price)
             THEN py_max(Sub(own_price, F(1)), F(5))
        ELSE own_price

\* The default radius_km=1.0.
RadiusKm == 1

\* The competitive pass writing each result back into the DemandPrice
\* column it reads: rows priced later see adjusted prices.
CompetitiveStepInPlace ==
    /\ pc = "competitive"
    /\ Len(acc) < NRows
    /\ LET index == Len(acc) + 1
           nb == neighbor_rows(index, df, F(RadiusKm))
           price == competitive_price(index, df, F(RadiusKm))
       IN  /\ acc' = Append(acc, price)
           /\ neighbors' = Append(neighbors, nb)
           /\ df' = [df EXCEPT ![index].DemandPrice = price]
    /\ UNCHANGED <<columns, pc>>

\* One element of [competitive_price(i, df) for i in range(len(df))].  A
\* row in reach with Capacity 0 raises ZeroDivisionError (row['Occupancy'] /
\* row['Capacity'] on Python numbers).
CompetitiveStep ==
    /\ pc = "competitive"
    /\ Len(acc) < NRows
    /\ LET index == Len(acc) + 1
           nb == neighbor_rows(index, df, F(RadiusKm))
       IN  IF \E i \in nb : df[i].Capacity = 0
           THEN /\ pc' = "error"
                /\ acc' = <<>>
                /\ neighbors' = neighbors
           ELSE /\ acc' = Append(acc, competitive_price(index, df, F(RadiusKm)))
                /\ neighbors' = Append(neighbors, nb)
                /\ pc' = pc
    /\ UNCHANGED <<df, columns>>

\* df['CompetitivePrice'] = <the list>
CompetitiveAssign ==
    /\ pc = "competitive"
    /\ Len(acc) = NRows
    /\ df' = SetColumn(df, "CompetitivePrice", acc)
    /\ columns' = columns \cup {"CompetitivePrice"}
    /\ pc' = "done"
    /\ acc' = <<>>
    /\ UNCHANGED neighbors

-----------------------------------------------------------------------------
(* The notebook run: the cells in order.                                   *)

Next ==
    \/ Preprocess
    \/ LinearStep
    \/ LinearAssign
    \/ DemandStep
    \/ DemandAssign
    \/ CompetitiveStep
    \/ CompetitiveAssign

Spec == Init /\ [][Next]_vars

-----------------------------------------------------------------------------
(* competitive_price on its own: the cell run on a table whose DemandPrice *)
(* column is given, over the whole range [5, 20] a demand price can take   *)
(* (and NaN), not only the prices the default base_price and lambd yield.  *)

\* A row whose DemandPrice is already set.
PricedReading(lot, occ, cap, price) ==
    [Reading(lot, 1, occ, cap, 0, "low", "car", 0) EXCEPT !.DemandPrice = price]

\* Demand prices at and next to both clamp bounds and in between, at an
\* occupancy rate of 0.5 and of 0.95, on the two lots in reach of each
\* other; NaN prices; and the lot out of reach.
PricedReadings ==
    { PricedReading("A", 50, 100, Fr(550, 100)),
      PricedReading("A", 50, 100, Fr(1200, 100)),
      PricedReading("A", 50, 100, Fr(1950, 100)),
      PricedReading("A", 50, 100, NaN),
      PricedReading("B", 50, 100, Fr(500, 100)),
      PricedReading("B", 50, 100, Fr(1000, 100)),
      PricedReading("B", 19, 20, Fr(1200, 100)),
      PricedReading("B", 50, 100, Fr(1500, 100)),
      PricedReading("B", 19, 20, Fr(1500, 100)),
      PricedReading("B", 19, 20, Fr(2000, 100)),
      PricedReading("B", 19, 20, NaN),
      PricedReading("C", 50, 100, Fr(1200, 100)),
      PricedReading("C", 19, 20, Fr(1000, 100)) }

InitCompetitive ==
    /\ df \in [Rows -> PricedReadings]
    /\ columns = RawColumns \cup {"DemandPrice"}
    /\ pc = "competitive"
    /\ acc = <<>>
    /\ neighbors = <<>>

NextCompetitive ==
    \/ CompetitiveStep
    \/ CompetitiveAssign

SpecCompetitive == InitCompetitive /\ [][NextCompetitive]_vars

-----------------------------------------------------------------------------
(* Properties.                                                             *)

InRange(x) == Le(F(5), x) /\ Le(x, F(20))

\* The rows whose competitive price has been computed, and that price.
Priced == IF pc = "done" THEN Rows
          ELSE IF pc = "competitive" THEN 1..Len(acc) ELSE {}

Result(k) == IF pc = "done" THEN df[k].CompetitivePrice ELSE acc[k]

\* The rows whose linear price has been computed, and that price.
LinearPriced == IF "LinearPrice" \in columns THEN Rows
                ELSE IF pc = "linear" THEN 1..Len(acc) ELSE {}

LinearResult(k) == IF "LinearPrice" \in columns THEN df[k].LinearPrice ELSE acc[k]

\* The demand price of every row as the demand cell computes it from the
\* row's own preprocessed features.
DemandSnapshot ==
    [i \in Rows |-> demand_based_price(df[i], F(DemandBasePrice), DemandLambda)]

\* C1: once the competitive pass has begun (and for as long as its results
\* exist), the DemandPrice column exists and holds, for every row of the
\* table, the demand price of that row: no competitive price is computed
\* before the demand pass has finished for all rows.
C1_DemandPassCompleteFirst ==
    (pc \in {"competitive", "done"} \/ neighbors # <<>>) =>
        /\ "DemandPrice" \in columns
        /\ \A i \in Rows : df[i].DemandPrice = DemandSnapshot[i]

\* The first competitive price has just been computed, from rows in reach
\* of each other that carry different demand prices.
C1_Witness ==
    /\ pc = "competitive"
    /\ Len(acc) = 1
    /\ neighbors[1] # {}
    /\ \E j \in neighbors[1] : IsNum(df[j].DemandPrice)
                                /\ df[j].DemandPrice # df[1].DemandPrice

\* The table with its rows reordered: row i of the result is row p[i].
Permuted(table, p) == [i \in Rows |-> table[p[i]]]

Permutations == {p \in [Rows -> Rows] : \A i, j \in Rows : p[i] = p[j] => i = j}

\* C2: every competitive price is the one computed from the demand-price
\* snapshot alone, whatever has been computed before it in the same pass;
\* and when the pass is over, visiting the rows in any other order gives
\* every row the same competitive price.
C2_OrderIndependent ==
    /\ \A k \in Priced :
          Result(k) = competitive_price(k,
                          SetColumn(df, "DemandPrice", DemandSnapshot), F(RadiusKm))
    /\ pc = "done" =>
          \A p \in Permutations : \A i \in Rows :
              competitive_price(i, Permuted(df, p), F(RadiusKm))
                  = df[p[i]].CompetitivePrice

\* The pass is over and some row was priced after a neighbour of it whose
\* competitive price differs from its demand price.
C2_Witness ==
    /\ pc = "done"
    /\ \E i \in Rows : \E j \in neighbors[i] :
          /\ j < i
          /\ IsNum(df[j].DemandPrice)
          /\ df[j].CompetitivePrice # df[j].DemandPrice
          /\ df[i].CompetitivePrice # df[i].DemandPrice

\* C3: every demand price and every competitive price produced, in the
\* columns and in the passes under way, lies in [5, 20].
C3_PricesWithinBounds ==
    /\ "DemandPrice" \in columns => \A i \in Rows : InRange(df[i].DemandPrice)
    /\ "CompetitivePrice" \in columns => \A i \in Rows : InRange(df[i].CompetitivePrice)
    /\ pc \in {"demand", "competitive"} => \A k \in 1..Len(acc) : InRange(acc[k])

\* A reading the engine must reject: capacity <= 0 or a traffic level or a
\* vehicle type outside the enumerations.
Malformed(row) ==
    \/ row.Capacity <= 0
    \/ row.TrafficConditionNearby \notin {"low", "medium", "high"}
    \/ row.VehicleType \notin {"bike", "car", "truck"}

\* Row i is part of the emitted prices: the run produced its three prices.
Emitted(i) == {"LinearPrice", "DemandPrice", "CompetitivePrice"} \subseteq columns

\* C4: when the run has ended, the rows with emitted prices are exactly the
\* well-formed ones: a malformed reading is left out, and every other row
\* of the batch has its prices.
C4_MalformedRejectedAlone ==
    pc \in {"done", "error"} =>
        \A i \in Rows : Emitted(i) <=> ~Malformed(df[i])

\* C5: every row that contributed to avg_price and avg_occ of a row has
\* that row's timestamp.
C5_NeighboursOfSameTick ==
    \A k \in 1..Len(neighbors) : \A j \in neighbors[k] :
        df[j].Timestamp = df[k].Timestamp

\* The other lots of the table within radius_km of the lot of row k.
OtherLotsInReach(k) ==
    {df[j].SystemCodeNumber : j \in {i \in Rows :
        /\ df[i].SystemCodeNumber # df[k].SystemCodeNumber
        /\ Le(haversine(df[k].Latitude, df[k].Longitude,
                        df[i].Latitude, df[i].Longitude), F(RadiusKm))}}

\* C6: the lots whose rows were used as neighbours of a row are exactly the
\* other lots within radius_km; the row's own lot is never among them.
C6_NeighboursAreOtherLots ==
    \A k \in 1..Len(neighbors) :
        {df[j].SystemCodeNumber : j \in neighbors[k]} = OtherLotsInReach(k)

\* The averages over the rows used as neighbours of row k.
AvgPrice(k) == np_mean(neighbors[k], [i \in Rows |-> df[i].DemandPrice])

AvgOcc(k) == np_mean(neighbors[k],
                 [i \in Rows |-> Fr(df[i].Occupancy, df[i].Capacity)])

\* own + 1 capped at 20, and own - 1 floored at 5.
RaisedPrice(own) == IF Lt(Add(own, F(1)), F(20)) THEN Add(own, F(1)) ELSE F(20)

LoweredPrice(own) == IF Gt(Sub(own, F(1)), F(5)) THEN Sub(own, F(1)) ELSE F(5)

\* Row k has the single neighbour described: its price and occupancy rate.
OneNeighbour(k, price, occ) ==
    /\ Cardinality(neighbors[k]) = 1
    /\ AvgPrice(k) = price
    /\ AvgOcc(k) = occ

\* C7: with a non-empty neighbour list the competitive price is own + 1
\* (at most 20) when avg_occ > 0.9 and avg_price > own, else own - 1 (at
\* least 5) when avg_price < own, else own unchanged; own 12 with one
\* neighbour at 15 and occupancy 0.95 gives 13, and own 12 with a neighbour
\* at 10 gives 11.
C7_NudgeRule ==
    \A k \in Priced : neighbors[k] # {} =>
        LET own == df[k].DemandPrice
        IN  /\ Result(k) =
                  IF Gt(AvgOcc(k), Fr(9, 10)) /\ Gt(AvgPrice(k), own)
                  THEN RaisedPrice(own)
                  ELSE IF Lt(AvgPrice(k), own) THEN LoweredPrice(own)
                  ELSE own
            /\ own = F(12) /\ OneNeighbour(k, F(15), Fr(95, 100)) => Result(k) = F(13)
            /\ own = F(12) /\ (\E o \in {Fr(1, 2), Fr(95, 100)} :
                                  OneNeighbour(k, F(10), o)) => Result(k) = F(11)

\* The pass is over; a row at 12 was raised to 13 by its single neighbour
\* at 15 with occupancy 0.95, and that neighbour, seeing the lower 12, was
\* lowered to 14.
C7_Witness ==
    /\ pc = "done"
    /\ \E k \in Rows :
          /\ df[k].DemandPrice = F(12)
          /\ OneNeighbour(k, F(15), Fr(95, 100))
          /\ df[k].CompetitivePrice = F(13)
          /\ \E j \in neighbors[k] : df[j].CompetitivePrice = F(14)

C9_AdjustmentAtMostOne ==
    \A k \in Priced :
        LET own == df[k].DemandPrice
        IN  \/ Result(k) = own
            \/ /\ IsNum(own) /\ IsNum(Result(k))
               /\ Le(Sub(Result(k), own), F(1))
               /\ Le(Sub(own, Result(k)), F(1))

\* The pass is over; one row moved down by exactly 1 and another, held by
\* the cap of 20, moved up by less.
C9_Witness ==
    /\ pc = "done"
    /\ \E k \in Rows : Sub(df[k].DemandPrice, df[k].CompetitivePrice) = F(1)
    /\ \E k \in Rows : Sub(df[k].CompetitivePrice, df[k].DemandPrice) = Fr(1, 2)

\* C10: the linear price never decreases as occupancy / capacity grows; it
\* is 12.50 for occupancy 50 of capacity 100; and it is not clamped above
\* capacity: 17.50 for occupancy 150 of capacity 100, and above
\* base_price + alpha = 15 whenever occupancy exceeds capacity.
C10_LinearMonotoneUnclamped ==
    \A i \in LinearPriced :
        /\ \A j \in LinearPriced :
              Le(Fr(df[i].Occupancy, df[i].Capacity),
                 Fr(df[j].Occupancy, df[j].Capacity))
                  => Le(LinearResult(i), LinearResult(j))
        /\ df[i].Occupancy = 50 /\ df[i].Capacity = 100
              => LinearResult(i) = Fr(1250, 100)
        /\ df[i].Occupancy = 150 /\ df[i].Capacity = 100
              => LinearResult(i) = Fr(1750, 100)
        /\ df[i].Occupancy > df[i].Capacity
              => Gt(LinearResult(i), F(LinearBasePrice + LinearAlpha))

\* The LinearPrice column is assigned and holds three different prices in
\* the order of the occupancy rates: 50 of 100 below a full lot below 150
\* of 100.
C10_Witness ==
    /\ "LinearPrice" \in columns
    /\ \E i, j, k \in Rows :
          /\ df[i].Occupancy = 50 /\ df[i].Capacity = 100
          /\ df[j].Occupancy = df[j].Capacity
          /\ df[k].Occupancy = 150 /\ df[k].Capacity = 100
          /\ Lt(df[i].LinearPrice, df[j].LinearPrice)
          /\ Lt(df[j].LinearPrice, df[k].LinearPrice)

=============================================================================
